---- MODULE Spec2Model ----
(***************************************************************************)
(* Parallel chatbot session runner: ParallelChatBotTester                  *)
(* (testcases/test_chat_parallel.py) driving ChatBotPage                   *)
(* (pages/ChatBotPage.py), Login (pages/login.py) and the result writer    *)
(* (utilities/ChatBotResultWriter.py).                                     *)
(*                                                                         *)
(* Texts are sequences of tokens: 0 is a run of white space, a positive    *)
(* number is a word.  "" is the empty sequence.                            *)
(***************************************************************************)
EXTENDS Integers, Sequences, FiniteSets, TLC

\* ---- bounds of the model ------------------------------------------------
MaxUsers == 2
MaxPoolUsers == 3
MaxWorkers == 2
MaxQuestions == 1
MaxData == 1
MaxSessionQuestions == 2
MaxKeywords == 10
MaxCalls == 2
MaxCount == 3
MaxWorkerNum == 6
MaxRows == 2
MaxRetries == 3

\* ---- values -------------------------------------------------------------
None == "None"
Screenshot == "png"
EmptyText == << >>
SomeAnswer == <<1, 0, 2>>
ModelNames == {"", "gpt"}

VARIABLES
    user_credentials,   \* run_parallel_tests argument: list of (username, password)
    num_questions,      \* run_parallel_tests argument
    model_name,         \* run_parallel_tests argument
    max_workers,        \* run_parallel_tests argument
    test_data,          \* self.test_data, loaded by ReadChatData.read_data
    dpc,                \* position of the dispatcher thread in run_parallel_tests
    submitted,          \* number of futures created by executor.submit so far
    processed,          \* futures already yielded by as_completed
    success_count,
    failed_count,
    all_results,
    summary,            \* << >> until built, then <<summary record>>
    summary_file,       \* the run-level spreadsheet: "none", "saved" or "failed"
    tpc,                \* per future: position of its _test_single_user call
    task,               \* per future: locals of _test_single_user / test_multiple_questions
    browser,            \* per future: the Chrome process: "none", "open" or "quit"
    hist,               \* per future: what the session has done so far (observation only)
    evaluated,          \* arguments of direct calls of evaluate_response_quality: << >> or
                        \* <<actual_response, expected_context, expected_result>>
    evaluations,        \* the dicts those calls returned, in call order
    generate_args,      \* arguments of a call of generate_user_credentials: << >> or
                        \* <<base_name, start_num, count, password>>
    generated,          \* << >> until that call returned, then <<the list returned>>
    accounts,           \* the user_account fixture: worker id -> account it returned
    ollama,             \* a call of ResponseQualityEvaluator._call_ollama: << >> or its record
    single,             \* a call of test_single_question on its own: << >> or its record
    exported            \* a call of export_chatbot_results on its own: << >> or its record

vars == <<user_credentials, num_questions, model_name, max_workers, test_data,
          dpc, submitted, processed, success_count, failed_count, all_results,
          summary, summary_file, tpc, task, browser, hist, evaluated, evaluations,
          generate_args, generated, accounts, ollama, single,
          exported>>

scoring == <<evaluated, evaluations>>
generation == <<generate_args, generated>>
aside == <<accounts, ollama, single, exported>>
params == <<user_credentials, num_questions, model_name, max_workers, test_data>>
dispatcher == <<dpc, submitted, processed, success_count, failed_count, all_results,
                summary, summary_file>>

N == Len(user_credentials)
Futures == 1..N

\* ---- Python helpers -----------------------------------------------------
\* dict.get(key, default)
DictGet(d, k, default) == IF k \in DOMAIN d THEN d[k] ELSE default

\* truthiness of a str
Truthy(text) == Len(text) > 0

\* str.split(): the words of a text, as the set built by set(text.split())
Split(text) == {text[i] : i \in {j \in 1..Len(text) : text[j] # 0}}

\* len(text.strip()) == 0
StripIsEmpty(text) == \A i \in 1..Len(text) : text[i] = 0

Min(a, b) == IF a < b THEN a ELSE b

\* sampling with replacement: any sequence of length k over 1..d
Samples_withReplacement(d, k) == [1..k -> 1..d]

\* the injective sequences of length k over 1..d: what random.sample(population, k)
\* can return, as indices into the population
Samples(d, k) == {s \in [1..k -> 1..d] : \A a, b \in 1..k : a # b => s[a] # s[b]}

\* ---- the question dataset -----------------------------------------------
ChatDataColumns == {"question", "question_vi", "expected_context", "expected_result",
                    "model", "actual_answer", "test_result", "screen_shot"}

\* ReadChatData.read_data: one dict per spreadsheet row, columns 4..7 renamed,
\* four empty columns added
ReadChatDataRow(j) ==
    [k \in ChatDataColumns |->
        CASE k = "question" -> <<j>>
          [] k = "question_vi" -> <<j, 0, j>>
          [] k = "expected_context" -> <<1, 0, 10 + j>>
          [] k = "expected_result" -> <<2, 0, 20 + j>>
          [] OTHER -> EmptyText]

ReadChatData(d) == [j \in 1..d |-> ReadChatDataRow(j)]

\* ---- scoring (ChatBotPage.evaluate_response_quality) ---------------------
\* Scores are exact fractions <<numerator, denominator>> in lowest terms.
RECURSIVE GCD(_, _)
GCD(a, b) == IF b = 0 THEN a ELSE GCD(b, a % b)

Frac(n, d) == IF n = 0 THEN <<0, 1>> ELSE <<n \div GCD(n, d), d \div GCD(n, d)>>

\* "{x:.2f}": the fraction in hundredths, to the nearest, a tie to the even
\* neighbour (for fewer than 40 keywords a tie is an exact multiple of 1/8,
\* which the float holds exactly)
Format2f(f) ==
    LET down == (100 * f[1]) \div f[2]
        rest == 2 * ((100 * f[1]) % f[2])
    IN  IF rest > f[2] \/ (rest = f[2] /\ down % 2 = 1) THEN down + 1 ELSE down

\* one field: |expected keywords among the response words| / |expected keywords|
MatchScore(actual_response, expected) ==
    LET keywords == Split(expected)
        response_words == Split(actual_response)
    IN  IF Truthy(expected) /\ keywords # {}
        THEN Frac(Cardinality(keywords \cap response_words), Cardinality(keywords))
        ELSE <<0, 1>>

\* the flag stays False when the expected field is empty or has no keyword
MatchFlag(actual_response, expected) ==
    LET sc == MatchScore(actual_response, expected)
    IN  /\ Truthy(expected)
        /\ Split(expected) # {}
        /\ 10 * sc[1] > 3 * sc[2]

\* (context_match_score + answer_match_score) / 2 >= 0.4 on floats: the double
\* sum 0.1 + 0.7 is 0.7999999999999999, so the mean of 1/10 and 7/10 is
\* 0.39999999999999997; for keyword sets of up to 12 words no other pair of
\* scores compares differently from the exact mean
MeanAtLeastThreshold(c, a) ==
    /\ 5 * (c[1] * a[2] + a[1] * c[2]) >= 2 * (2 * c[2] * a[2])
    /\ {c, a} # {<<1, 10>>, <<7, 10>>}

\* a scorer that keeps state: once a call has been made it passes everything
evaluate_response_quality_remembering(actual_response, expected_context, expected_result) ==
    [passed |-> evaluations # << >>, score |-> <<0, 1>>, context_match |-> FALSE,
     answer_match |-> FALSE, details |-> <<"Empty response">>]

evaluate_response_quality(actual_response, expected_context, expected_result) ==
    IF ~Truthy(actual_response) \/ StripIsEmpty(actual_response)
    THEN [passed |-> FALSE, score |-> <<0, 1>>, context_match |-> FALSE,
          answer_match |-> FALSE, details |-> <<"Empty response">>]
    ELSE LET c == MatchScore(actual_response, expected_context)
             a == MatchScore(actual_response, expected_result)
             sc == Frac(c[1] * a[2] + a[1] * c[2], 2 * c[2] * a[2])
         IN  [passed |-> MeanAtLeastThreshold(c, a),
              score |-> sc,
              context_match |-> MatchFlag(actual_response, expected_context),
              answer_match |-> MatchFlag(actual_response, expected_result),
              details |-> <<"Context match", Format2f(c), "Answer match", Format2f(a)>>]

\* ---- initial state --------------------------------------------------------
\* locals of a _test_single_user call that has not started, and the
\* conversation on its page: sent_set, the numbers of the questions that were
\* typed and entered; completed, those whose response has its quote button;
\* quote_count, the number of quote buttons seen by the last wait
NoTask == [driver |-> FALSE, results |-> << >>, success |-> FALSE,
           pending_return |-> << >>, random_questions |-> << >>,
           tm_results |-> << >>, quote_count |-> 0, outcome |-> << >>,
           sent_set |-> {}, completed |-> {}]

\* starts: times a pool thread began the call; exception: the call that raised
\* inside the try block; escaped: the call whose exception left the method;
\* sent: questions typed and entered; asked: results appended; timeouts: the
\* recorded questions whose wait_for_response returned False; capture_failed:
\* the recorded questions whose take_screenshot() in the try block raised;
\* report: << >> or <<the writer whose workbook was saved>>
NoHist == [starts |-> 0, exception |-> "", escaped |-> "", login_error |-> FALSE,
           logins |-> 0, navigated |-> FALSE, sampled |-> FALSE, sent |-> 0,
           asked |-> 0, exports |-> 0, quits |-> 0, timeouts |-> {},
           capture_failed |-> {}, report |-> << >>]

\* a roster of n credentials in which every username occurs twice (as far as
\* n allows): <<user 80, user 80, user 81, user 81, ...>>
Roster(n) == [i \in 1..n |-> <<<<"auto_user", 80 + ((i - 1) \div 2)>>, "123456">>]

InitWith(Ns, Ws, Qs, Ds, Models) ==
    /\ \E n \in Ns : user_credentials = Roster(n)
    /\ num_questions \in Qs
    /\ model_name \in Models
    /\ max_workers \in Ws
    /\ \E d \in Ds : test_data = ReadChatData(d)
    /\ dpc = "submit"
    /\ submitted = 0
    /\ processed = {}
    /\ success_count = 0
    /\ failed_count = 0
    /\ all_results = << >>
    /\ summary = << >>
    /\ summary_file = "none"
    /\ tpc = [i \in Futures |-> "unsubmitted"]
    /\ task = [i \in Futures |-> NoTask]
    /\ browser = [i \in Futures |-> "none"]
    /\ hist = [i \in Futures |-> NoHist]

\* no direct call of the scorer is made
NoAside == accounts = << >> /\ ollama = << >> /\ single = << >> /\ exported = << >>

NoDirectCall ==
    /\ evaluated = << >> /\ evaluations = << >>
    /\ generate_args = << >> /\ generated = << >>
    /\ NoAside

Init == InitWith(0..MaxUsers, 1..MaxWorkers, 0..MaxQuestions, {MaxData}, {""}) /\ NoDirectCall

\* ---- the worker pool (ThreadPoolExecutor) ---------------------------------
Active == {"create", "get", "login", "navigate", "sample", "new_chat",
           "questions", "finally"}
Finished == {"returned", "raised"}

Running == {i \in Futures : tpc[i] \in Active}

\* executor.submit, one call per credential, in roster order
Submit ==
    /\ dpc = "submit"
    /\ submitted < N
    /\ submitted' = submitted + 1
    /\ tpc' = [tpc EXCEPT ![submitted + 1] = "queued"]
    /\ UNCHANGED <<aside, generation, scoring, params, dpc, processed, success_count, failed_count,
                   all_results, summary, summary_file, task, browser, hist>>

\* the dict comprehension is complete: the as_completed loop begins
BeginCollect ==
    /\ dpc = "submit"
    /\ submitted = N
    /\ dpc' = "collect"
    /\ UNCHANGED <<aside, generation, scoring, params, submitted, processed, success_count, failed_count,
                   all_results, summary, summary_file, tpc, task, browser, hist>>

\* a pool that starts a thread for every submitted item
PoolHasFreeThread_unbounded == TRUE

\* a pool whose threads end after one work item
PoolHasFreeThread_oneShot ==
    Cardinality({j \in Futures : tpc[j] \in Active \cup Finished}) < max_workers

PoolHasFreeThread == Cardinality(Running) < max_workers

\* a pool that runs a work item again when its call raised
StartTask_retrying(i) ==
    /\ tpc[i] = "queued" \/ (tpc[i] = "raised" /\ i \notin processed)
    /\ PoolHasFreeThread
    /\ tpc' = [tpc EXCEPT ![i] = "create"]
    /\ task' = [task EXCEPT ![i] = NoTask]
    /\ hist' = [hist EXCEPT ![i].starts = @ + 1]
    /\ UNCHANGED <<aside, generation, scoring, params, dispatcher, browser>>

\* a pool thread takes the oldest queued work item; the pool has at most
\* max_workers threads, each running one item at a time
StartTask(i) ==
    /\ tpc[i] = "queued"
    /\ \A j \in Futures : tpc[j] = "queued" => i <= j
    /\ PoolHasFreeThread
    /\ tpc' = [tpc EXCEPT ![i] = "create"]
    /\ task' = [task EXCEPT ![i] = NoTask]
    /\ hist' = [hist EXCEPT ![i].starts = @ + 1]
    /\ UNCHANGED <<aside, generation, scoring, params, dispatcher, browser>>

\* ---- one session (_test_single_user) --------------------------------------
UserOf(i) == user_credentials[i][1]

\* a method without the except clause: the exception leaves it at once
Raise_uncaught(i, step) ==
    /\ tpc' = [tpc EXCEPT ![i] = "raised"]
    /\ hist' = [hist EXCEPT ![i].exception = step]

\* an exception inside the try block: the except clause logs it and clears
\* success, then the finally clause runs
Raise(i, step) ==
    /\ tpc' = [tpc EXCEPT ![i] = "finally"]
    /\ hist' = [hist EXCEPT ![i].exception = step]

\* self._create_driver(): webdriver.Chrome(...) starts the browser, then
\* driver.implicitly_wait(10) talks to it; the handle reaches the caller's
\* local only when both succeed
CreateDriver(i) ==
    /\ tpc[i] = "create"
    /\ \E o \in {"ok", "chrome_raises", "implicitly_wait_raises"} :
        \/ /\ o = "ok"
           /\ browser' = [browser EXCEPT ![i] = "open"]
           /\ task' = [task EXCEPT ![i].driver = TRUE]
           /\ tpc' = [tpc EXCEPT ![i] = "get"]
           /\ UNCHANGED hist
        \/ /\ o = "chrome_raises"
           /\ Raise(i, "webdriver.Chrome")
           /\ task' = [task EXCEPT ![i].success = FALSE]
           /\ UNCHANGED browser
        \/ /\ o = "implicitly_wait_raises"
           /\ browser' = [browser EXCEPT ![i] = "open"]
           /\ Raise(i, "implicitly_wait")
           /\ task' = [task EXCEPT ![i].success = FALSE]
    /\ UNCHANGED <<aside, generation, scoring, params, dispatcher>>

\* driver.get(self.base_url)
OpenBaseUrl(i) ==
    /\ tpc[i] = "get"
    /\ \/ /\ tpc' = [tpc EXCEPT ![i] = "login"]
          /\ UNCHANGED <<task, hist>>
       \/ /\ Raise(i, "driver.get")
          /\ task' = [task EXCEPT ![i].success = FALSE]
    /\ UNCHANGED <<aside, generation, scoring, params, dispatcher, browser>>

\* the texts the toast container can show after the login click
LoginErrors == {EmptyText, <<7>>}

\* a login whose error text is not looked at
LoginOutcome_ignored(i, error) == << >>

\* if error: return user_name, False, []
LoginOutcome(i, error) ==
    IF Truthy(error) THEN <<<<UserOf(i), FALSE, << >>>>>> ELSE << >>

\* Login(driver).do_login(user_name, pass_word) and the check of its error
DoLogin(i) ==
    /\ tpc[i] = "login"
    /\ \/ \E error \in LoginErrors :
            /\ task' = [task EXCEPT ![i].pending_return = LoginOutcome(i, error)]
            /\ tpc' = [tpc EXCEPT ![i] =
                         IF LoginOutcome(i, error) # << >> THEN "finally" ELSE "navigate"]
            /\ hist' = [hist EXCEPT ![i].logins = @ + 1,
                                    ![i].login_error = Truthy(error)]
       \/ /\ tpc' = [tpc EXCEPT ![i] = "finally"]
          /\ hist' = [hist EXCEPT ![i].logins = @ + 1, ![i].exception = "do_login"]
          /\ task' = [task EXCEPT ![i].success = FALSE]
    /\ UNCHANGED <<aside, generation, scoring, params, dispatcher, browser>>

\* hp.get_setting_menu(); setting.get_chat_menu(); ChatBotPage(driver)
Navigate(i) ==
    /\ tpc[i] = "navigate"
    /\ \/ /\ tpc' = [tpc EXCEPT ![i] = "sample"]
          /\ hist' = [hist EXCEPT ![i].navigated = TRUE]
          /\ UNCHANGED task
       \/ /\ Raise(i, "navigate")
          /\ task' = [task EXCEPT ![i].success = FALSE]
    /\ UNCHANGED <<aside, generation, scoring, params, dispatcher, browser>>

SampleSize == Min(num_questions, Len(test_data))

\* a sampler that takes its records out of the shared dataset
Sample_popping(i) ==
    /\ tpc[i] = "sample"
    /\ task' = [task EXCEPT ![i].random_questions = SubSeq(test_data, 1, SampleSize)]
    /\ test_data' = SubSeq(test_data, SampleSize + 1, Len(test_data))
    /\ tpc' = [tpc EXCEPT ![i] = "new_chat"]
    /\ hist' = [hist EXCEPT ![i].sampled = TRUE]
    /\ UNCHANGED <<aside, generation, scoring, user_credentials, num_questions, model_name, max_workers,
                   dispatcher, browser>>

\* random.sample(self.test_data, min(num_questions, len(self.test_data)))
Sample(i) ==
    /\ tpc[i] = "sample"
    /\ \E s \in Samples(Len(test_data), SampleSize) :
         task' = [task EXCEPT ![i].random_questions =
                                 [a \in 1..SampleSize |-> test_data[s[a]]]]
    /\ tpc' = [tpc EXCEPT ![i] = "new_chat"]
    /\ hist' = [hist EXCEPT ![i].sampled = TRUE]
    /\ UNCHANGED <<aside, generation, scoring, params, dispatcher, browser>>

\* test_multiple_questions up to its loop: results = [], click_new_chat(),
\* select_model(model_name) when a model is named
NewChat(i) ==
    /\ tpc[i] = "new_chat"
    /\ \/ /\ tpc' = [tpc EXCEPT ![i] = "questions"]
          /\ task' = [task EXCEPT ![i].tm_results = << >>]
          /\ UNCHANGED hist
       \/ /\ \E step \in {"click_new_chat"} \cup
                         (IF model_name # "" THEN {"select_model"} ELSE {}) :
                Raise(i, step)
          /\ task' = [task EXCEPT ![i].success = FALSE]
    /\ UNCHANGED <<aside, generation, scoring, params, dispatcher, browser>>

\* ---- one question (ChatBotPage.test_single_question) ----------------------
\* what get_latest_response can return: (response, context)
ResponseData == {[response |-> EmptyText, context |-> EmptyText],
                 [response |-> SomeAnswer, context |-> <<1, 0, 11>>]}

\* what the browser and the chatbot do during one question
QuestionEnv == [send_ok : BOOLEAN, received : BOOLEAN, data : ResponseData,
                shot_ok : BOOLEAN, handler_shot_ok : BOOLEAN]

\* the verdict after the answer was read and the screenshot taken
Evaluated(result, expected_context, expected_result) ==
    IF Truthy(result.actual_response)
    THEN LET evaluation == evaluate_response_quality(result.actual_response,
                                                     expected_context, expected_result)
         IN  [result EXCEPT !.evaluation_score = evaluation.score,
                            !.evaluation_details = evaluation.details,
                            !.test_result = IF evaluation.passed THEN "pass" ELSE "fail"]
    ELSE [result EXCEPT !.test_result = "fail",
                        !.evaluation_details = <<"Empty response">>]

\* the except clause of test_single_question; its own take_screenshot() is
\* outside any try
ErrorHandler(result, env) ==
    [raised |-> ~env.handler_shot_ok,
     result |-> [result EXCEPT !.test_result = "error",
                               !.evaluation_details = <<"exception">>,
                               !.evident = Screenshot]]

\* a timeout branch that takes no screenshot
TimedOut_noEvidence(result) == [result EXCEPT !.test_result = "timeout"]

\* when wait_for_response returned False
TimedOut(result) == [result EXCEPT !.test_result = "timeout", !.evident = Screenshot]

\* [raised |-> an exception leaves the method, result |-> the dict it returns otherwise]
test_single_question(question, expected_context, expected_result, model, env) ==
    LET result == [question |-> question,
                   expected_context |-> expected_context,
                   expected_result |-> expected_result,
                   actual_response |-> EmptyText,
                   actual_context |-> EmptyText,
                   test_result |-> "fail",
                   time_response |-> "",
                   model |-> model,
                   evident |-> None,
                   evaluation_score |-> <<0, 1>>,
                   evaluation_details |-> << >>]
        timed == [result EXCEPT !.time_response = "seconds"]
        read == [timed EXCEPT !.actual_response = env.data.response,
                              !.actual_context = env.data.context]
    IN  IF ~env.send_ok THEN ErrorHandler(result, env)
        ELSE IF ~env.received
             THEN IF env.shot_ok
                  THEN [raised |-> FALSE, result |-> TimedOut(timed)]
                  ELSE ErrorHandler([timed EXCEPT !.test_result = "timeout"], env)
             ELSE IF env.shot_ok
                  THEN [raised |-> FALSE,
                        result |-> Evaluated([read EXCEPT !.evident = Screenshot],
                                             expected_context, expected_result)]
                  ELSE ErrorHandler(read, env)

\* a wait that is content with the responses of the earlier questions
ExpectedResponseCount_previous(idx) == idx - 1

\* the number of completed responses wait_for_response compares against
ExpectedResponseCount(idx) == idx

\* a loop that stops at the first question recorded as "error"
LoopFinished_stopOnError(i) ==
    \/ Len(task[i].tm_results) = Len(task[i].random_questions)
    \/ /\ task[i].tm_results # << >>
       /\ task[i].tm_results[Len(task[i].tm_results)].test_result = "error"

\* for idx, question_data in enumerate(questions_data, 1): every element is
\* visited
LoopFinished(i) == Len(task[i].tm_results) = Len(task[i].random_questions)

\* one pass of the loop of test_multiple_questions
TestQuestion(i) ==
    /\ tpc[i] = "questions"
    /\ ~LoopFinished(i)
    /\ LET idx == Len(task[i].tm_results) + 1
           question_data == task[i].random_questions[idx]
       IN  \E env \in QuestionEnv :
           LET sent == hist[i].sent + (IF env.send_ok THEN 1 ELSE 0)
               sentNow == IF env.send_ok THEN task[i].sent_set \cup {idx} ELSE task[i].sent_set
           IN  \* a question that was sent yields at most one completed response,
               \* and a completed response stays
               \E done \in SUBSET sentNow :
               LET quotes == Cardinality(done) IN
               /\ task[i].completed \subseteq done
               \* wait_for_response: True only if the quote buttons number exactly
               \* expected_response_count within the timeout
               /\ env.received => env.send_ok /\ quotes = ExpectedResponseCount(idx)
               /\ LET r == test_single_question(
                               DictGet(question_data, "Question (from file OCR txt)", EmptyText),
                               DictGet(question_data, "Expected result (Context from file PDF)", EmptyText),
                               DictGet(question_data, "Expected result (Answer)", EmptyText),
                               model_name, env)
                      row == [STT |-> DictGet(question_data, "STT", idx),
                              Test_Data_Describe |-> DictGet(question_data, "Test Data Describe", EmptyText),
                              Data_Type |-> DictGet(question_data, "Data Type", EmptyText)]
                  IN  IF r.raised
                      THEN /\ tpc' = [tpc EXCEPT ![i] = "finally"]
                           /\ task' = [task EXCEPT ![i].success = FALSE,
                                                   ![i].quote_count = quotes,
                                                   ![i].sent_set = sentNow,
                                                   ![i].completed = done]
                           /\ hist' = [hist EXCEPT ![i].sent = sent,
                                                   ![i].exception = "take_screenshot"]
                      ELSE /\ task' = [task EXCEPT ![i].tm_results =
                                                       Append(@, [f \in DOMAIN r.result \cup DOMAIN row |->
                                                                   IF f \in DOMAIN row THEN row[f]
                                                                   ELSE r.result[f]]),
                                                   ![i].quote_count = quotes,
                                                   ![i].sent_set = sentNow,
                                                   ![i].completed = done]
                           /\ hist' = [hist EXCEPT ![i].sent = sent,
                                                   ![i].asked = @ + 1,
                                                   ![i].timeouts = IF env.send_ok /\ ~env.received
                                                                   THEN @ \cup {idx} ELSE @,
                                                   ![i].capture_failed = IF env.send_ok /\ ~env.shot_ok
                                                                         THEN @ \cup {idx} ELSE @]
                           /\ UNCHANGED tpc
    /\ UNCHANGED <<aside, generation, scoring, params, dispatcher, browser>>

\* ---- the report writer (utilities/ChatBotResultWriter.py) --------------------
\* ChatBotResultWriter.__init__: an empty workbook, both cursors at row 1
NewWriter == [current_row |-> 1, evidence_row |-> 1,
              results_sheet |-> << >>, evidence_sheet |-> << >>]

\* ws.cell(row=row, ...).value = value: the sheet as the list of its rows
SetRow(sheet, row, value) ==
    [r \in 1..(IF row > Len(sheet) THEN row ELSE Len(sheet)) |->
        IF r = row THEN value ELSE IF r <= Len(sheet) THEN sheet[r] ELSE "blank"]

\* write_headers: the header row, then the cursor goes below it
write_headers(w) ==
    [w EXCEPT !.results_sheet = SetRow(@, 1, "headers"), !.current_row = 2]

\* a writer whose row cursor stays where it is
add_result_row_sameRow(w, result_data) ==
    [w EXCEPT !.results_sheet = SetRow(@, w.current_row,
                                       [data |-> result_data, evidence |-> "No evidence"])]

\* add_result_row: the data cells at the row cursor; a truthy screenshot goes
\* to the evidence sheet at the evidence cursor (a failure of the image
\* insertion is logged, the entry stays) and the row links to it
add_result_row(w, result_data) ==
    LET screenshot == DictGet(result_data, "evident", None)
    IN  IF screenshot # None
        THEN [w EXCEPT !.results_sheet = SetRow(@, w.current_row,
                                                [data |-> result_data,
                                                 evidence |-> "View Evidence"]),
                       !.evidence_sheet = SetRow(@, w.evidence_row, screenshot),
                       !.evidence_row = @ + 1,
                       !.current_row = @ + 1]
        ELSE [w EXCEPT !.results_sheet = SetRow(@, w.current_row,
                                                [data |-> result_data,
                                                 evidence |-> "No evidence"]),
                       !.current_row = @ + 1]

\* for result in results: writer.add_result_row(result)
RECURSIVE AddRows(_, _)
AddRows(w, results) ==
    IF results = << >> THEN w
    ELSE AddRows(add_result_row(w, Head(results)), Tail(results))

\* the writer at writer.save() in export_chatbot_results
WriterOf(results) == AddRows(write_headers(NewWriter), results)

\* export_chatbot_results(results, filename): nothing is written for an empty
\* list; otherwise a workbook is written, or the failure is logged and re-raised
ExportOutcomes(results) == IF results = << >> THEN {"nothing"} ELSE {"saved", "raises"}

\* success = True placed before the export
SuccessAfterExport_early(o) == TRUE

\* success = True is reached only when the export did not raise; the except
\* clause sets success = False
SuccessAfterExport(o) == o # "raises"

\* the loop of test_multiple_questions is over: it returns its list, which
\* _test_single_user binds to results, exports, and then sets success
ExportResults(i) ==
    /\ tpc[i] = "questions"
    /\ LoopFinished(i)
    /\ \E o \in ExportOutcomes(task[i].tm_results) :
         /\ task' = [task EXCEPT ![i].results = task[i].tm_results,
                                 ![i].success = SuccessAfterExport(o)]
         /\ hist' = [hist EXCEPT ![i].exports = @ + (IF o = "saved" THEN 1 ELSE 0),
                                 ![i].report = IF o = "saved"
                                               THEN <<WriterOf(task[i].tm_results)>> ELSE @,
                                 ![i].exception = IF o = "raises" THEN "export" ELSE @]
    /\ tpc' = [tpc EXCEPT ![i] = "finally"]
    /\ UNCHANGED <<aside, generation, scoring, params, dispatcher, browser>>

\* a finally clause without driver.quit()
QuitNeeded_never(i) == FALSE

\* a finally clause that calls driver.quit() without looking at driver
QuitNeeded_always(i) == TRUE

\* finally: if driver: driver.quit()
QuitNeeded(i) == task[i].driver

\* a return that hands over the results the loop had gathered when it ended
ReturnValue_partial(i) ==
    IF task[i].pending_return # << >> THEN task[i].pending_return[1]
    ELSE <<UserOf(i), task[i].success, task[i].tm_results>>

\* the value of the return statement that is being completed
ReturnValue(i) ==
    IF task[i].pending_return # << >> THEN task[i].pending_return[1]
    ELSE <<UserOf(i), task[i].success, task[i].results>>

\* the finally clause and the return: an exception of driver.quit() replaces
\* the return value and leaves the call
Finally(i) ==
    /\ tpc[i] = "finally"
    /\ IF QuitNeeded(i)
       THEN /\ browser' = [browser EXCEPT ![i] = "quit"]
            /\ \/ /\ hist' = [hist EXCEPT ![i].quits = @ + 1]
                  /\ tpc' = [tpc EXCEPT ![i] = "returned"]
                  /\ task' = [task EXCEPT ![i].outcome = <<ReturnValue(i)>>]
               \/ /\ hist' = [hist EXCEPT ![i].quits = @ + 1,
                                          ![i].escaped = "driver.quit"]
                  /\ tpc' = [tpc EXCEPT ![i] = "raised"]
                  /\ UNCHANGED task
       ELSE /\ tpc' = [tpc EXCEPT ![i] = "returned"]
            /\ task' = [task EXCEPT ![i].outcome = <<ReturnValue(i)>>]
            /\ UNCHANGED <<hist, browser>>
    /\ UNCHANGED <<aside, generation, scoring, params, dispatcher>>

\* ---- the dispatcher (run_parallel_tests) ----------------------------------
\* a dispatcher that logs the exception of a future and does not count it
CountRaised_logOnly(failed) == failed

\* except Exception around future.result()
CountRaised(failed) == failed + 1

\* a dispatcher that keeps only the results of the session collected last
ExtendResults_overwrite(all, results) == results

\* all_results.extend(results)
ExtendResults(all, results) == all \o results

\* the else branch of "if success"
CountFailed(failed) == failed + 1

\* the counters of the dispatcher
Tally == [success_count |-> success_count, failed_count |-> failed_count,
          all_results |-> all_results]

\* the body of the as_completed loop for the finished future i, on counters acc
AfterCollect(acc, i) ==
    IF tpc[i] = "raised"
    THEN [acc EXCEPT !.failed_count = CountRaised(@)]
    ELSE LET success == task[i].outcome[1][2]
             results == task[i].outcome[1][3]
         IN  IF success
             THEN [acc EXCEPT !.success_count = @ + 1,
                              !.all_results = ExtendResults(@, results)]
             ELSE [acc EXCEPT !.failed_count = CountFailed(@)]

\* a loop without the except clause: the exception of a future leaves
\* run_parallel_tests
DispatcherAfter_noExcept(i) == IF tpc[i] = "raised" THEN "raised" ELSE "collect"

\* where the dispatcher is after the pass for future i: try/except around
\* future.result() keeps it in the loop
DispatcherAfter(i) == "collect"

\* one pass of "for future in as_completed(future_to_user)"
Collect(i) ==
    /\ dpc = "collect"
    /\ i \notin processed
    /\ tpc[i] \in Finished
    /\ processed' = processed \cup {i}
    /\ success_count' = AfterCollect(Tally, i).success_count
    /\ failed_count' = AfterCollect(Tally, i).failed_count
    /\ all_results' = AfterCollect(Tally, i).all_results
    /\ dpc' = DispatcherAfter(i)
    /\ UNCHANGED <<aside, generation, scoring, params, submitted, summary, summary_file, tpc, task, browser, hist>>

\* a count that does not look at the verdict
CountVerdict_any(results, verdict) == Len(results)

\* sum(1 for r in all_results if r.get("test_result") == verdict)
CountVerdict(results, verdict) ==
    Cardinality({k \in 1..Len(results) : results[k].test_result = verdict})

\* the summary dict built from the counters (the times are left out)
SummaryOf(acc) ==
    [total_users |-> Len(user_credentials),
     successful_users |-> acc.success_count,
     failed_users |-> acc.failed_count,
     total_tests |-> Len(acc.all_results),
     passed_tests |-> CountVerdict(acc.all_results, "pass"),
     failed_tests |-> CountVerdict(acc.all_results, "fail"),
     questions_per_user |-> num_questions,
     max_workers |-> max_workers]

\* a loop that may end before every future was yielded
AsCompletedExhausted_early == TRUE

\* the for loop over as_completed ends when every future has been yielded,
\* and the with block waits for the pool
AsCompletedExhausted == processed = Futures

\* as_completed is exhausted and the with block has shut the pool down
Summarize ==
    /\ dpc = "collect"
    /\ AsCompletedExhausted
    /\ summary' = <<SummaryOf(Tally)>>
    /\ dpc' = "save"
    /\ UNCHANGED <<aside, generation, scoring, params, submitted, processed, success_count, failed_count,
                   all_results, summary_file, tpc, task, browser, hist>>

\* self._save_summary(summary, all_results), then return summary
SaveSummary ==
    /\ dpc = "save"
    /\ summary_file' \in {"saved", "failed"}
    /\ dpc' = "returned"
    /\ UNCHANGED <<aside, generation, scoring, params, submitted, processed, success_count, failed_count,
                   all_results, summary, tpc, task, browser, hist>>

\* ---- specifications --------------------------------------------------------
Next ==
    \/ Submit
    \/ BeginCollect
    \/ \E i \in Futures : StartTask(i)
    \/ \E i \in Futures : CreateDriver(i)
    \/ \E i \in Futures : OpenBaseUrl(i)
    \/ \E i \in Futures : DoLogin(i)
    \/ \E i \in Futures : Navigate(i)
    \/ \E i \in Futures : Sample(i)
    \/ \E i \in Futures : NewChat(i)
    \/ \E i \in Futures : TestQuestion(i)
    \/ \E i \in Futures : ExportResults(i)
    \/ \E i \in Futures : Finally(i)
    \/ \E i \in Futures : Collect(i)
    \/ Summarize
    \/ SaveSummary

Spec == Init /\ [][Next]_vars

\* the threads of the pool and the dispatcher thread are scheduled fairly and
\* every call they make comes back: a step that can be taken is taken
SpecFair == Init /\ [][Next]_vars /\ WF_vars(Next)

\* one session on its own, with a longer question list
InitSession ==
    /\ InitWith({1}, {1}, 0..MaxSessionQuestions, 0..MaxSessionQuestions, ModelNames)
    /\ NoDirectCall

SpecSession == InitSession /\ [][Next]_vars

\* more sessions than pool threads; the sessions ask nothing unless the
\* roster holds a single credential
InitPool ==
    /\ \/ InitWith(0..MaxPoolUsers, 1..MaxWorkers, {0}, {MaxData}, {""})
       \/ InitWith({1}, 1..MaxWorkers, 1..MaxQuestions, {MaxData}, {""})
    /\ NoDirectCall

SpecPool == InitPool /\ [][Next]_vars

\* ---- the scorer called on its own -------------------------------------------
\* the text "lo lo+1 ... lo+n-1": n words separated by white space
RECURSIVE Words(_, _)
Words(lo, n) ==
    IF n = 0 THEN EmptyText
    ELSE IF n = 1 THEN <<lo>>
    ELSE <<lo, 0>> \o Words(lo + 1, n - 1)

\* an answer that starts with a word of its own and repeats mc words of the
\* expected context and ma words of the expected answer
AnswerText(mc, ma) ==
    <<99>> \o (IF mc > 0 THEN <<0>> \o Words(1, mc) ELSE EmptyText)
           \o (IF ma > 0 THEN <<0>> \o Words(101, ma) ELSE EmptyText)

\* the argument triples: an expected context of kc keywords, an expected
\* answer of ka keywords, and an answer holding mc and ma of them; and the
\* answers that are empty or white space only
ScoringInputs ==
    {<<AnswerText(mc, ma), Words(1, kc), Words(101, ka)>> :
        <<kc, mc, ka, ma>> \in {q \in (0..MaxKeywords) \X (0..MaxKeywords)
                                      \X (0..MaxKeywords) \X (0..MaxKeywords) :
                                   q[2] <= q[1] /\ q[4] <= q[3]}}
    \cup {<<blank, Words(1, 2), Words(101, 2)>> : blank \in {EmptyText, <<0>>}}

\* page.evaluate_response_quality(actual_response, expected_context, expected_result)
Evaluate ==
    /\ evaluated # << >>
    /\ Len(evaluations) < MaxCalls
    /\ evaluations' = Append(evaluations,
                             evaluate_response_quality(evaluated[1], evaluated[2], evaluated[3]))
    /\ UNCHANGED <<aside, generation, evaluated, params, dispatcher, tpc, task, browser, hist>>

NextScoring == Evaluate

\* a page object on which the scorer is called, outside any run
InitScoring ==
    /\ InitWith({0}, {1}, {0}, {0}, {""})
    /\ evaluated \in ScoringInputs
    /\ evaluations = << >>
    /\ generate_args = << >> /\ generated = << >>
    /\ NoAside

SpecScoring == InitScoring /\ [][NextScoring]_vars

\* the scorer called on the page object of a running session
PurityInputs ==
    {<<SomeAnswer, EmptyText, EmptyText>>,
     <<AnswerText(2, 0), Words(1, 5), Words(101, 4)>>,
     <<AnswerText(1, 7), Words(1, 10), Words(101, 10)>>,
     <<EmptyText, Words(1, 2), Words(101, 2)>>}

InitPurity ==
    /\ InitWith({1}, {1}, {MaxQuestions}, {MaxData}, {""})
    /\ evaluated \in PurityInputs
    /\ evaluations = << >>
    /\ generate_args = << >> /\ generated = << >>
    /\ NoAside

NextPurity == Next \/ Evaluate

SpecPurity == InitPurity /\ [][NextPurity]_vars

\* ---- the roster generator (generate_user_credentials) -----------------------
\* A string of digits is a sequence of the digits 0..9; -1 is the minus sign.
RECURSIVE Digits(_)
Digits(n) == IF n < 10 THEN <<n>> ELSE Digits(n \div 10) \o <<n % 10>>

\* str(n)
Str(n) == IF n < 0 THEN <<-1>> \o Digits(-n) ELSE Digits(n)

Zeros(k) == [j \in 1..k |-> 0]

\* a roster whose numbers are not padded
Zfill_none(text, width) == text

\* text.zfill(width): zeros are put in front, after a leading sign
Zfill(text, width) ==
    IF Len(text) >= width THEN text
    ELSE IF text # << >> /\ text[1] = -1
         THEN <<-1>> \o Zeros(width - Len(text)) \o Tail(text)
         ELSE Zeros(width - Len(text)) \o text

\* a username is <<base_name, the digit string that follows it>>
generate_user_credentials(base_name, start_num, count, password) ==
    [i \in 1..count |-> <<<<base_name, Zfill(Str(start_num + (i - 1)), 4)>>, password>>]

BaseNames == {"auto_user", "u"}
StartNums == {0, 8, 80, 998, 9998, 99998}
Passwords == {"123456", "pw"}

\* generate_user_credentials(base_name, start_num, count, password)
Generate ==
    /\ generate_args # << >>
    /\ generated = << >>
    /\ generated' = <<generate_user_credentials(generate_args[1], generate_args[2],
                                                generate_args[3], generate_args[4])>>
    /\ UNCHANGED <<aside, generate_args, scoring, params, dispatcher, tpc, task, browser, hist>>

NextCredentials == Generate

InitCredentials ==
    /\ InitWith({0}, {1}, {0}, {0}, {""})
    /\ evaluated = << >> /\ evaluations = << >>
    /\ generate_args \in BaseNames \X StartNums \X (-1..MaxCount) \X Passwords
    /\ generated = << >>
    /\ NoAside

SpecCredentials == InitCredentials /\ [][NextCredentials]_vars

\* ---- the user_account fixture (testcases/conftest.py) -----------------------
\* USER_ACCOUNTS, in list order
USER_ACCOUNTS ==
    <<[username |-> <<"auto_user", <<0, 0, 0, 1>>>>, password |-> "123456"],
      [username |-> <<"auto_user", <<0, 0, 0, 2>>>>, password |-> "123456"],
      [username |-> <<"auto_user", <<0, 0, 0, 2>>>>, password |-> "123456"],
      [username |-> <<"auto_user", <<0, 0, 0, 4>>>>, password |-> "123456"],
      [username |-> <<"auto_user", <<0, 0, 0, 5>>>>, password |-> "123456"]>>

\* the worker ids pytest-xdist hands out: "gw" followed by a number; a run
\* without workers has the id "master"
Master == <<"master", 0>>
WorkerIds == {Master} \cup {<<"gw", n>> : n \in 0..MaxWorkerNum}

\* int(worker_id.replace("gw", ""))
WorkerNum(worker_id) == worker_id[2]

\* user_account(worker_id); list indices start at 0 in the code, at 1 here
user_account(worker_id) ==
    IF worker_id = Master THEN USER_ACCOUNTS[1]
    ELSE USER_ACCOUNTS[(WorkerNum(worker_id) % Len(USER_ACCOUNTS)) + 1]

\* the session fixture is set up once in the process of worker w
RequestAccount(w) ==
    /\ w \notin DOMAIN accounts
    /\ accounts' = [x \in DOMAIN accounts \cup {w} |->
                        IF x = w THEN user_account(w) ELSE accounts[x]]
    /\ UNCHANGED <<ollama, single, exported, generation, scoring, params, dispatcher, tpc, task, browser, hist>>

NextAccounts == \E w \in WorkerIds : RequestAccount(w)

InitAccounts ==
    /\ InitWith({0}, {1}, {0}, {0}, {""})
    /\ evaluated = << >> /\ evaluations = << >>
    /\ generate_args = << >> /\ generated = << >>
    /\ accounts = << >>
    /\ ollama = << >> /\ single = << >> /\ exported = << >>

SpecAccounts == InitAccounts /\ [][NextAccounts]_vars

\* ---- test_single_question called on its own ---------------------------------
\* (question, expected_context, expected_result) of the call
QuestionInputs ==
    {<<<<5>>, EmptyText, EmptyText>>,
     <<<<5>>, Words(1, 2), Words(1, 2)>>,
     <<<<5>>, Words(1, 2), Words(101, 2)>>,
     <<EmptyText, Words(1, 5), Words(101, 4)>>}

\* page.test_single_question(question, expected_context, expected_result,
\* response_number, model_name)
AskSingle ==
    /\ single # << >>
    /\ single.out = << >>
    /\ single' = [single EXCEPT !.out =
                      <<test_single_question(single.args[1], single.args[2], single.args[3],
                                             single.model, single.env)>>]
    /\ UNCHANGED <<accounts, ollama, exported, generation, scoring, params, dispatcher, tpc, task,
                   browser, hist>>

NextQuestion == AskSingle

\* a page object on which one question is asked, outside any run
InitQuestion ==
    /\ InitWith({0}, {1}, {0}, {0}, {""})
    /\ evaluated = << >> /\ evaluations = << >>
    /\ generate_args = << >> /\ generated = << >>
    /\ accounts = << >> /\ ollama = << >> /\ exported = << >>
    /\ single \in [args : QuestionInputs, model : ModelNames, env : QuestionEnv, out : {<< >>}]

SpecQuestion == InitQuestion /\ [][NextQuestion]_vars

\* ---- export_chatbot_results called on its own --------------------------------
\* result dicts with and without a screenshot
ExportRows ==
    {[STT |-> 1, test_result |-> "pass", evident |-> Screenshot],
     [STT |-> 2, test_result |-> "fail", evident |-> None],
     [STT |-> 3, test_result |-> "timeout", evident |-> Screenshot]}

\* the result lists of up to MaxRows dicts
ExportInputs == UNION {[1..n -> ExportRows] : n \in 0..MaxRows}

\* export_chatbot_results(results, filename)
ExportDirect ==
    /\ exported # << >>
    /\ exported.out = << >>
    /\ \E o \in ExportOutcomes(exported.results) :
         exported' = [exported EXCEPT !.out =
                         <<IF o = "saved" THEN [outcome |-> o, writer |-> WriterOf(exported.results)]
                           ELSE [outcome |-> o, writer |-> NewWriter]>>]
    /\ UNCHANGED <<accounts, ollama, single, generation, scoring, params, dispatcher, tpc, task,
                   browser, hist>>

NextReport == Next \/ ExportDirect

\* one session, and one result list exported outside any session
InitReport ==
    /\ InitWith({1}, {1}, 0..MaxSessionQuestions, {MaxSessionQuestions}, {""})
    /\ evaluated = << >> /\ evaluations = << >>
    /\ generate_args = << >> /\ generated = << >>
    /\ accounts = << >> /\ ollama = << >> /\ single = << >>
    /\ exported \in [results : ExportInputs, out : {<< >>}]

SpecReport == InitReport /\ [][NextReport]_vars

\* ---- ResponseQualityEvaluator._call_ollama (utilities/QualityEvaluation.py) --
\* what one requests.post can do: raise (connection error, timeout), or
\* answer with a status and a body; json is << >> when response.json() raises,
\* else <<the dict>>
AttemptOutcomes ==
    {[raises |-> TRUE, status |-> 0, json |-> << >>]}
    \cup [raises : {FALSE}, status : {200, 500},
          json : {<< >>, <<[response |-> <<7>>]>>, <<[response |-> <<9>>]>>,
                  <<[error |-> <<8>>]>>}]

\* the attempt ends in the return statement: status 200 and a body that decodes
Answers(o) == ~o.raises /\ o.status = 200 /\ o.json # << >>

\* response.json().get("response", "")
ResponseOf(o) == DictGet(o.json[1], "response", EmptyText)

\* a loop that goes round once more
AttemptsLeft_oneMore(c) == Len(c.attempts) <= c.max_retries

\* for attempt in range(self.max_retries)
AttemptsLeft(c) == Len(c.attempts) < c.max_retries

\* one pass of the loop: the post, then return, or a warning and the next pass
Attempt ==
    /\ ollama # << >>
    /\ ollama.pc = "loop"
    /\ AttemptsLeft(ollama)
    /\ \E o \in AttemptOutcomes :
         ollama' = [ollama EXCEPT !.attempts = Append(@, o),
                                  !.pc = IF Answers(o) THEN "returned" ELSE "loop",
                                  !.returned = IF Answers(o) THEN <<ResponseOf(o)>> ELSE @]
    /\ UNCHANGED <<accounts, single, exported, generation, scoring, params, dispatcher, tpc,
                   task, browser, hist>>

\* the loop is exhausted: raise RuntimeError
GiveUp ==
    /\ ollama # << >>
    /\ ollama.pc = "loop"
    /\ ~AttemptsLeft(ollama)
    /\ ollama' = [ollama EXCEPT !.pc = "raised"]
    /\ UNCHANGED <<accounts, single, exported, generation, scoring, params, dispatcher, tpc,
                   task, browser, hist>>

NextOllama == Attempt \/ GiveUp

\* an evaluator constructed with max_retries, and one call of _call_ollama
InitOllama ==
    /\ InitWith({0}, {1}, {0}, {0}, {""})
    /\ evaluated = << >> /\ evaluations = << >>
    /\ generate_args = << >> /\ generated = << >>
    /\ accounts = << >> /\ single = << >> /\ exported = << >>
    /\ ollama \in [max_retries : -1..MaxRetries, attempts : {<< >>}, pc : {"loop"},
                    returned : {<< >>}]

SpecOllama == InitOllama /\ [][NextOllama]_vars

TypeOK ==
    /\ dpc \in {"submit", "collect", "save", "returned", "raised"}
    /\ submitted \in 0..N
    /\ processed \subseteq Futures
    /\ \A i \in Futures : tpc[i] \in {"unsubmitted", "queued"} \cup Active \cup Finished

\* ---- claims ----------------------------------------------------------------
RunSummary == summary[1]
Returned == dpc = "returned"
OutcomeOf(i) == task[i].outcome[1]

\* the session ended the normal way: no login error, no exception
Normal(i) == tpc[i] = "returned" /\ hist[i].exception = "" /\ ~hist[i].login_error

\* an exception was raised in the session, inside the try block or in teardown
Excepted(i) == hist[i].exception # "" \/ tpc[i] = "raised"

RECURSIVE SumResults(_)
SumResults(S) ==
    IF S = {} THEN 0
    ELSE LET i == CHOOSE x \in S : TRUE
         IN  Len(OutcomeOf(i)[3]) + SumResults(S \ {i})

\* C1: when run_parallel_tests has returned for a roster of N credentials,
\* successful_users + failed_users = total_users = N, whatever way each session
\* ended; while collecting, every future yielded so far is counted exactly once.
C1_EveryCredentialCounted ==
    /\ success_count + failed_count = Cardinality(processed)
    /\ Returned => /\ RunSummary.total_users = N
                   /\ RunSummary.successful_users + RunSummary.failed_users = N

\* a returned run of two sessions with the same username, one ended by an
\* exception escaping in teardown, the other successful
C1_Witness ==
    /\ Returned
    /\ N = 2
    /\ UserOf(1) = UserOf(2)
    /\ \E i, j \in Futures : tpc[i] = "raised" /\ Normal(j)

\* C2: in a returned run, the sessions that completed normally are the
\* successful ones and all others are failed: with K sessions ended by an
\* exception and N-K normal, failed_users = K and successful_users = N-K; the
\* results of every normal session are, in their order, a segment of the
\* aggregate, which holds nothing else.
C2_FaultIsolation ==
    Returned =>
        LET normal == {i \in Futures : Normal(i)}
        IN  /\ RunSummary.successful_users = Cardinality(normal)
            /\ RunSummary.failed_users = N - Cardinality(normal)
            /\ (\A i \in Futures : Normal(i) \/ Excepted(i)) =>
                   RunSummary.failed_users = Cardinality({i \in Futures : Excepted(i)})
            /\ \A i \in normal : OutcomeOf(i)[2]
            /\ RunSummary.total_tests = SumResults(normal)
            /\ \A i \in normal :
                   \E off \in 0..Len(all_results) :
                       /\ off + Len(OutcomeOf(i)[3]) <= Len(all_results)
                       /\ \A k \in 1..Len(OutcomeOf(i)[3]) :
                              all_results[off + k] = OutcomeOf(i)[3][k]

\* a returned run in which one session raised and the other completed normally
\* with a result that reached the aggregate
C2_Witness ==
    /\ Returned
    /\ N = 2
    /\ max_workers = 2
    /\ \E i, j \in Futures : /\ hist[i].exception # ""
                             /\ Normal(j)
                             /\ Len(OutcomeOf(j)[3]) = 1
    /\ RunSummary.failed_users = 1
    /\ RunSummary.successful_users = 1
    /\ RunSummary.total_tests = 1

\* C3: at most max_workers sessions are between browser creation and the end
\* of teardown; the number of sessions started never exceeds the number
\* finished by more than max_workers, so a session beyond the first
\* max_workers starts only after a running one has finished.
C3_BoundedConcurrency ==
    /\ Cardinality(Running) <= max_workers
    /\ \A i \in Futures :
           tpc[i] \in Active \cup Finished =>
               Cardinality({j \in Futures : tpc[j] \in Finished /\ j # i}) >= i - max_workers

\* three sessions on two workers: two are running and the third waits
C3_Witness ==
    /\ N = 3
    /\ max_workers = 2
    /\ Cardinality(Running) = 2
    /\ \E i \in Futures : tpc[i] = "queued"

Ended == {"finally", "returned", "raised"}

\* C4 as stated: an exception at any step of the try block, the report export
\* included, gives an outcome with success = false and an empty result list.
C4_Original ==
    \A i \in Futures :
        tpc[i] = "returned" /\ hist[i].exception # "" =>
            /\ OutcomeOf(i)[2] = FALSE
            /\ OutcomeOf(i)[3] = << >>

\* C4 amended: an exception at any step of the try block gives an outcome with
\* success = false; its result list is empty when the exception was raised
\* before or inside the interact loop, and is the full list of the session's
\* results when it was raised by the report export.
C4_ExceptionOutcome ==
    \A i \in Futures :
        tpc[i] = "returned" /\ hist[i].exception # "" =>
            /\ OutcomeOf(i)[1] = UserOf(i)
            /\ OutcomeOf(i)[2] = FALSE
            /\ hist[i].exception # "export" => OutcomeOf(i)[3] = << >>
            /\ hist[i].exception = "export" =>
                   /\ OutcomeOf(i)[3] = task[i].tm_results
                   /\ Len(OutcomeOf(i)[3]) = Len(task[i].random_questions)
                   /\ OutcomeOf(i)[3] # << >>

\* a session whose export raised after two questions, and has returned
C4_Witness ==
    \E i \in Futures :
        /\ tpc[i] = "returned"
        /\ hist[i].exception = "export"
        /\ OutcomeOf(i)[2] = FALSE
        /\ Len(OutcomeOf(i)[3]) = 2

\* C5 as stated: _test_single_user never raises into its future.
C5_Original == \A i \in Futures : tpc[i] # "raised"

\* C5 amended: an exception inside the try block never leaves
\* _test_single_user: the session goes on to the finally clause and, unless
\* driver.quit() raises there, returns a (username, success, results) outcome;
\* only an exception of driver.quit() leaves the call, and the dispatcher
\* counts that future as failed.
C5_TaskBoundary ==
    \A i \in Futures :
        /\ hist[i].exception # "" => tpc[i] \in Ended
        /\ tpc[i] = "raised" =>
               /\ hist[i].escaped = "driver.quit"
               /\ task[i].driver
               /\ hist[i].quits = 1
        /\ tpc[i] = "returned" =>
               /\ hist[i].escaped = ""
               /\ Len(OutcomeOf(i)) = 3
               /\ OutcomeOf(i)[1] = UserOf(i)
               /\ OutcomeOf(i)[2] \in BOOLEAN
        /\ failed_count >= Cardinality({j \in processed : tpc[j] = "raised"})

\* an exception caught in the try block, then driver.quit() raised as well and
\* the dispatcher has collected the future
C5_Witness ==
    \E i \in Futures :
        /\ tpc[i] = "raised"
        /\ hist[i].exception = "navigate"
        /\ i \in processed
        /\ failed_count = 1

\* C6: a session whose login reported an error never navigates, samples, sends
\* a question or exports; it goes to the finally clause, its browser is quit
\* once, the outcome it returns is (username, false, []) and the dispatcher
\* counts it as failed.
C6_LoginFailFast ==
    \A i \in Futures :
        hist[i].login_error =>
            /\ tpc[i] \in Ended
            /\ ~hist[i].navigated
            /\ ~hist[i].sampled
            /\ task[i].random_questions = << >>
            /\ hist[i].sent = 0
            /\ hist[i].asked = 0
            /\ hist[i].exports = 0
            /\ tpc[i] \in Finished => hist[i].quits = 1 /\ browser[i] = "quit"
            /\ tpc[i] = "returned" => OutcomeOf(i) = <<UserOf(i), FALSE, << >>>>
            /\ i \in processed => failed_count >= 1 /\ all_results = << >>

\* a run whose only session had a login error, returned
C6_Witness ==
    /\ Returned
    /\ \E i \in Futures : hist[i].login_error /\ tpc[i] = "returned"
    /\ RunSummary.failed_users = 1

\* C7: a session that holds a browser handle (its _create_driver returned)
\* calls driver.quit() exactly once, in the step that ends the session, on
\* every exit path; a session that holds none never calls it; when
\* run_parallel_tests has returned every handle has been quit.
C7_GuaranteedRelease ==
    /\ \A i \in Futures :
           /\ hist[i].quits <= 1
           /\ hist[i].quits = 1 => tpc[i] \in Finished /\ task[i].driver
           /\ tpc[i] \in Finished /\ task[i].driver =>
                  hist[i].quits = 1 /\ browser[i] = "quit"
           /\ task[i].driver /\ tpc[i] \notin Finished => browser[i] = "open"
    /\ Returned => \A i \in Futures : task[i].driver => browser[i] = "quit"

\* a returned run with a login-error session and a session that raised in the
\* try block, both with their browser quit once
C7_Witness ==
    /\ Returned
    /\ \E i, j \in Futures :
           /\ hist[i].login_error /\ hist[i].quits = 1
           /\ hist[j].exception = "export" /\ hist[j].quits = 1

AcquireFailed(i) == hist[i].exception \in {"webdriver.Chrome", "implicitly_wait"}

C8_Session ==
    \A i \in Futures :
        AcquireFailed(i) =>
            /\ tpc[i] \in {"finally", "returned"}
            /\ ~task[i].driver
            /\ hist[i].logins = 0
            /\ ~hist[i].navigated
            /\ hist[i].sent = 0
            /\ hist[i].asked = 0
            /\ hist[i].exports = 0
            /\ hist[i].quits = 0
            /\ tpc[i] = "returned" => OutcomeOf(i) = <<UserOf(i), FALSE, << >>>>
            /\ i \in processed => failed_count >= 1

C8_Siblings ==
    \A i \in Futures :
        (tpc[i] = "create" /\ tpc'[i] = "finally") =>
            \A j \in Futures \ {i} :
                /\ tpc'[j] = tpc[j]
                /\ task'[j] = task[j]
                /\ browser'[j] = browser[j]
                /\ hist'[j] = hist[j]

\* C8: a session whose _create_driver raised returns (username, false, []),
\* attempts no login, no question and no driver.quit(), and the step in which
\* it fails changes nothing of any other session.
C8_AcquireFailure == []C8_Session /\ [][C8_Siblings]_vars

\* a returned run in which browser creation failed for one session and the
\* other completed normally with a result
C8_Witness ==
    /\ Returned
    /\ \E i, j \in Futures :
           /\ hist[i].exception = "webdriver.Chrome"
           /\ tpc[i] = "returned"
           /\ Normal(j)
           /\ Len(OutcomeOf(j)[3]) = 1
    /\ RunSummary.successful_users = 1
    /\ RunSummary.failed_users = 1

\* the interact loop of the session ran to its end
LoopDone(i) ==
    /\ tpc[i] \in Ended
    /\ hist[i].sampled
    /\ hist[i].exception \in {"", "export"}

C9_Results ==
    \A i \in Futures :
        /\ hist[i].timeouts \subseteq 1..Len(task[i].tm_results)
        /\ \A k \in hist[i].timeouts :
               /\ task[i].tm_results[k].test_result = "timeout" <=> k \notin hist[i].capture_failed
               /\ task[i].tm_results[k].test_result \in {"timeout", "error"}
               /\ task[i].tm_results[k].evident = Screenshot
               /\ task[i].tm_results[k].actual_response = EmptyText
               /\ task[i].tm_results[k].STT = k
        /\ LoopDone(i) => Len(task[i].tm_results) = Len(task[i].random_questions)

C9_Continues ==
    \A i \in Futures :
        hist'[i].timeouts # hist[i].timeouts =>
            /\ tpc'[i] = "questions"
            /\ Len(task'[i].tm_results) = Len(task[i].tm_results) + 1
            /\ hist'[i].timeouts = hist[i].timeouts \cup {Len(task'[i].tm_results)}

\* C9: a question whose response wait timed out is recorded with test_result =
\* "timeout" (never a verdict; "error" only when take_screenshot() itself
\* raised), a screenshot as evidence and an empty actual answer; recording it
\* leaves the session in the loop, and a loop that ends has a result for every
\* sampled question.
C9_TimeoutQuestionFatalOnly == []C9_Results /\ [][C9_Continues]_vars

\* the first of two questions timed out, the second was sent and answered
C9_Witness ==
    \E i \in Futures :
        /\ LoopDone(i)
        /\ hist[i].timeouts = {1}
        /\ task[i].tm_results[1].test_result = "timeout"
        /\ Len(task[i].tm_results) = 2
        /\ hist[i].sent = 2
        /\ task[i].tm_results[2].test_result = "fail"
        /\ task[i].tm_results[2].actual_response = SomeAnswer

\* the answer was read and its screenshot taken: the result is a verdict
Answered(r) == r.test_result \notin {"timeout", "error"}

\* C10: in the interact loop the results appended so far are one per question
\* tried, in sampled order (the k-th has number k); a loop that ends has
\* exactly n results for n sampled questions, whatever each outcome was; an
\* empty answer is recorded as "fail" with detail "Empty response".
C10_Collect ==
    \A i \in Futures :
        LET rs == task[i].tm_results
        IN  /\ Len(rs) <= Len(task[i].random_questions)
            /\ hist[i].asked = Len(rs)
            /\ tpc[i] = "questions" => hist[i].exception = ""
            /\ \A k \in 1..Len(rs) :
                   /\ rs[k].STT = k
                   /\ rs[k].test_result \in {"pass", "fail", "timeout", "error"}
                   /\ Answered(rs[k]) /\ rs[k].actual_response = EmptyText =>
                          /\ rs[k].test_result = "fail"
                          /\ rs[k].evaluation_details = <<"Empty response">>
            /\ LoopDone(i) =>
                   /\ Len(rs) = Len(task[i].random_questions)
                   /\ task[i].results = rs

\* two sampled questions: the first got an empty answer, the second raised
\* while sending; both are recorded and the loop ended
C10_Witness ==
    \E i \in Futures :
        /\ LoopDone(i)
        /\ Len(task[i].random_questions) = 2
        /\ Len(task[i].tm_results) = 2
        /\ task[i].tm_results[1].test_result = "fail"
        /\ task[i].tm_results[1].evaluation_details = <<"Empty response">>
        /\ task[i].tm_results[2].test_result = "error"
        /\ hist[i].sent = 1

\* the futures that returned an outcome, and those whose outcome says success
WithOutcome == {i \in Futures : tpc[i] = "returned"}
Successful == {i \in WithOutcome : OutcomeOf(i)[2]}

\* the results with the given verdict in the outcomes of the futures in S
RECURSIVE SumVerdict(_, _)
SumVerdict(S, verdict) ==
    IF S = {} THEN 0
    ELSE LET i == CHOOSE x \in S : TRUE
             rs == OutcomeOf(i)[3]
         IN  Cardinality({k \in 1..Len(rs) : rs[k].test_result = verdict})
                 + SumVerdict(S \ {i}, verdict)

\* C11 as stated: the totals of the Run Summary count the results of all
\* Session Outcomes of the run, those of failed sessions included.
C11_Original ==
    Returned =>
        /\ RunSummary.total_tests = SumResults(WithOutcome)
        /\ RunSummary.passed_tests = SumVerdict(WithOutcome, "pass")
        /\ RunSummary.failed_tests = SumVerdict(WithOutcome, "fail")

\* C11 amended: total_tests is the number of results in the outcomes of the
\* successful sessions, passed_tests the number of those with verdict pass and
\* failed_tests the number with verdict fail; the results carried by a failed
\* outcome are not counted, and timeout and error results count in the total
\* only.
C11_AggregationTotals ==
    Returned =>
        /\ RunSummary.total_tests = SumResults(Successful)
        /\ RunSummary.passed_tests = SumVerdict(Successful, "pass")
        /\ RunSummary.failed_tests = SumVerdict(Successful, "fail")
        /\ RunSummary.passed_tests + RunSummary.failed_tests
               + SumVerdict(Successful, "timeout") + SumVerdict(Successful, "error")
               = RunSummary.total_tests

\* a returned run of two sessions: one successful with a timeout result, the
\* other failed by its export with a result that is not counted
C11_Witness ==
    /\ Returned
    /\ N = 2
    /\ \E i, j \in Futures :
           /\ i \in Successful
           /\ Len(OutcomeOf(i)[3]) = 1
           /\ OutcomeOf(i)[3][1].test_result = "timeout"
           /\ tpc[j] = "returned"
           /\ hist[j].exception = "export"
           /\ Len(OutcomeOf(j)[3]) = 1
    /\ RunSummary.total_tests = 1
    /\ RunSummary.failed_tests = 0

\* the counters at the start of run_parallel_tests
ZeroTally == [success_count |-> 0, failed_count |-> 0, all_results |-> << >>]

\* the orders in which as_completed can yield the futures
CompletionOrders == {o \in [1..N -> Futures] : \A a, b \in 1..N : a # b => o[a] # o[b]}

\* the counters after the futures were collected in the order o
RECURSIVE CollectAll(_, _)
CollectAll(acc, o) ==
    IF o = << >> THEN acc ELSE CollectAll(AfterCollect(acc, Head(o)), Tail(o))

\* C12: once every future is finished, collecting them in any two completion
\* orders gives the same total_users, successful_users, failed_users,
\* total_tests, passed_tests and failed_tests; the summary the run returns is
\* that of every order.
C12_OrderIndependent ==
    (\A i \in Futures : tpc[i] \in Finished) =>
        /\ \A o1, o2 \in CompletionOrders :
               SummaryOf(CollectAll(ZeroTally, o1)) = SummaryOf(CollectAll(ZeroTally, o2))
        /\ Returned => \A o \in CompletionOrders :
                           RunSummary = SummaryOf(CollectAll(ZeroTally, o))

\* a returned run of two successful sessions with different results, the
\* second collected before the first
C12_Witness ==
    /\ Returned
    /\ N = 2
    /\ Successful = {1, 2}
    /\ Len(OutcomeOf(1)[3]) = 1
    /\ Len(OutcomeOf(2)[3]) = 1
    /\ OutcomeOf(1)[3][1].test_result = "fail"
    /\ OutcomeOf(2)[3][1].test_result = "timeout"
    /\ all_results = OutcomeOf(2)[3] \o OutcomeOf(1)[3]
    /\ RunSummary.total_tests = 2
    /\ RunSummary.failed_tests = 1

\* C13: a session that has sampled holds exactly min(Q, D) question records,
\* each a record of the loaded dataset and no record twice (the records of the
\* dataset are pairwise different); before sampling it holds none.
C13_SamplingBound ==
    /\ \A a, b \in 1..Len(test_data) : a # b => test_data[a] # test_data[b]
    /\ \A i \in Futures :
           LET qs == task[i].random_questions
           IN  /\ ~hist[i].sampled => qs = << >>
               /\ hist[i].sampled =>
                      /\ Len(qs) = Min(num_questions, Len(test_data))
                      /\ Len(qs) <= num_questions
                      /\ Len(qs) <= Len(test_data)
                      /\ \A a \in 1..Len(qs) : \E j \in 1..Len(test_data) : qs[a] = test_data[j]
                      /\ \A a, b \in 1..Len(qs) : a # b => qs[a] # qs[b]

\* two questions asked of a dataset of two records: both are sampled, the
\* second record first
C13_Witness ==
    \E i \in Futures :
        /\ hist[i].sampled
        /\ num_questions = 2
        /\ Len(test_data) = 2
        /\ task[i].random_questions = <<test_data[2], test_data[1]>>

\* more questions asked than the dataset holds: the whole dataset is sampled
C13_WitnessSmallData ==
    \E i \in Futures :
        /\ hist[i].sampled
        /\ num_questions = 2
        /\ Len(test_data) = 1
        /\ Len(task[i].random_questions) = 1

\* the expected keywords and those of them that occur among the answer's words
Keywords(expected) == Cardinality(Split(expected))
Hits(actual, expected) == Cardinality(Split(expected) \cap Split(actual))

\* the divisor of a field score: the score is 0 = 0/1 when the field is empty
Divisor(expected) == IF Keywords(expected) = 0 THEN 1 ELSE Keywords(expected)

\* C14 as stated, for every call with a non-empty answer: a match flag is true
\* iff hits / keywords >= 0.3, passed is true iff the mean of the two field
\* scores is >= 0.4, and the score is that mean.
C14_Original ==
    evaluated # << >> /\ ~StripIsEmpty(evaluated[1]) =>
        \A k \in 1..Len(evaluations) :
            LET hc == Hits(evaluated[1], evaluated[2])
                kc == Divisor(evaluated[2])
                ha == Hits(evaluated[1], evaluated[3])
                ka == Divisor(evaluated[3])
            IN  /\ evaluations[k].context_match = (10 * hc >= 3 * kc)
                /\ evaluations[k].answer_match = (10 * ha >= 3 * ka)
                /\ evaluations[k].passed = (5 * (hc * ka + ha * kc) >= 4 * kc * ka)
                /\ evaluations[k].score = Frac(hc * ka + ha * kc, 2 * kc * ka)

\* what the code computes: a match flag is true iff hits / keywords > 0.3 (3 of
\* 10 gives false), and passed is true iff the mean is >= 0.4 except for the
\* scores 1/10 and 7/10, whose float mean falls below 0.4.
C14_CodeRule ==
    evaluated # << >> /\ ~StripIsEmpty(evaluated[1]) =>
        \A k \in 1..Len(evaluations) :
            LET hc == Hits(evaluated[1], evaluated[2])
                kc == Divisor(evaluated[2])
                ha == Hits(evaluated[1], evaluated[3])
                ka == Divisor(evaluated[3])
            IN  /\ evaluations[k].context_match = (10 * hc > 3 * kc)
                /\ evaluations[k].answer_match = (10 * ha > 3 * ka)
                /\ evaluations[k].passed =
                       /\ 5 * (hc * ka + ha * kc) >= 4 * kc * ka
                       /\ ~(kc = 10 /\ ka = 10 /\ {hc, ha} = {1, 7})
                /\ evaluations[k].score = Frac(hc * ka + ha * kc, 2 * kc * ka)

\* 1 of 10 context keywords and 7 of 10 answer keywords: the mean is 2/5 and
\* the call returned passed = False
C14_Witness ==
    /\ evaluated # << >>
    /\ Keywords(evaluated[2]) = 10 /\ Hits(evaluated[1], evaluated[2]) = 1
    /\ Keywords(evaluated[3]) = 10 /\ Hits(evaluated[1], evaluated[3]) = 7
    /\ Len(evaluations) = 1
    /\ ~evaluations[1].passed
    /\ evaluations[1].score = <<2, 5>>

\* 3 of 10 context keywords: the call returned context_match = False
C14_WitnessFlag ==
    /\ evaluated # << >>
    /\ Keywords(evaluated[2]) = 10 /\ Hits(evaluated[1], evaluated[2]) = 3
    /\ Len(evaluations) = 1
    /\ ~evaluations[1].context_match

\* the examples that agree with the code: 2 of 5 gives a true flag; 2/5 and
\* 0/4 give the mean 0.2 and passed = False
C14_WitnessExamples ==
    /\ evaluated # << >>
    /\ Keywords(evaluated[2]) = 5 /\ Hits(evaluated[1], evaluated[2]) = 2
    /\ Keywords(evaluated[3]) = 4 /\ Hits(evaluated[1], evaluated[3]) = 0
    /\ Len(evaluations) = 1
    /\ evaluations[1].context_match
    /\ ~evaluations[1].answer_match
    /\ evaluations[1].score = <<1, 5>>
    /\ ~evaluations[1].passed

\* the calls give one result
C15_SameResult ==
    /\ \A k, l \in 1..Len(evaluations) :
           /\ evaluations[k].score = evaluations[l].score
           /\ evaluations[k].context_match = evaluations[l].context_match
           /\ evaluations[k].answer_match = evaluations[l].answer_match
           /\ evaluations[k].passed = evaluations[l].passed
    /\ \A i \in Futures : \A k \in 1..Len(task[i].tm_results) :
           LET r == task[i].tm_results[k]
           IN  /\ evaluated = <<r.actual_response, r.expected_context, r.expected_result>>
               /\ r.test_result \in {"pass", "fail"}
               /\ Truthy(r.actual_response)
               => \A l \in 1..Len(evaluations) :
                      /\ r.evaluation_score = evaluations[l].score
                      /\ r.evaluation_details = evaluations[l].details
                      /\ (r.test_result = "pass") = evaluations[l].passed

\* a call changes nothing but the list of returned values
C15_Frame ==
    evaluations' # evaluations =>
        /\ Len(evaluations') = Len(evaluations) + 1
        /\ UNCHANGED <<aside, generation, evaluated, params, dispatcher, tpc, task, browser, hist>>

Failed(i) == tpc[i] = "raised" \/ (tpc[i] = "returned" /\ ~OutcomeOf(i)[2])

C16_Once ==
    /\ submitted <= N
    /\ \A i \in Futures :
           /\ tpc[i] # "unsubmitted" <=> i <= submitted
           /\ hist[i].starts <= 1
           /\ hist[i].starts = 1 <=> tpc[i] \in Active \cup Finished
           /\ hist[i].logins <= 1
    /\ Returned => \A i \in Futures : hist[i].starts = 1

C16_Final ==
    /\ submitted' >= submitted
    /\ \A i \in Futures :
           /\ tpc[i] # "unsubmitted" => tpc'[i] # "unsubmitted"
           /\ tpc[i] \in Finished =>
                  /\ tpc'[i] = tpc[i]
                  /\ task'[i] = task[i]
                  /\ hist'[i] = hist[i]
                  /\ browser'[i] = browser[i]

\* C16: every credential is submitted once and its session started once; a
\* finished session, failed or not, is never queued or started again: its
\* position, locals and history stay as they were when it ended.
C16_NoRetry == []C16_Once /\ [][C16_Final]_vars

\* a returned run of two sessions, one failed by a login error and one by an
\* exception of driver.quit(), each started once
C16_Witness ==
    /\ Returned
    /\ N = 2
    /\ \E i, j \in Futures :
           /\ hist[i].login_error /\ Failed(i) /\ hist[i].starts = 1
           /\ tpc[j] = "raised" /\ Failed(j) /\ hist[j].starts = 1
    /\ RunSummary.failed_users = 2

C17_Loaded ==
    /\ test_data = ReadChatData(Len(test_data))
    /\ \A i \in Futures : \A a \in 1..Len(task[i].random_questions) :
           \E j \in 1..Len(test_data) : task[i].random_questions[a] = test_data[j]

C17_Step ==
    /\ test_data' = test_data
    /\ \A i \in Futures :
           task'[i].random_questions # task[i].random_questions =>
               /\ tpc[i] = "sample"
               /\ task[i].random_questions = << >>
               /\ \A j \in Futures \ {i} : task'[j] = task[j]

\* C17: no step changes test_data: at every moment it holds the records that
\* were loaded, in their order and with their values; the sampled list of a
\* session is written once, by the sampling step of that session, which
\* touches the locals of no other session, and holds records of the dataset.
C17_ReadOnlyDataset == []C17_Loaded /\ [][C17_Step]_vars

\* a returned run in which two sessions sampled and asked the one record of
\* the dataset, which is still as loaded
C17_Witness ==
    /\ Returned
    /\ N = 2
    /\ Len(test_data) = 1
    /\ \A i \in Futures : /\ task[i].random_questions = <<test_data[1]>>
                            /\ hist[i].asked = 1
    /\ test_data = ReadChatData(1)

C18_State ==
    /\ dpc # "raised"
    /\ dpc \in {"save", "returned"} <=> summary # << >>
    /\ Returned =>
           /\ summary_file \in {"saved", "failed"}
           /\ RunSummary = SummaryOf(Tally)
           /\ RunSummary.total_users = N
    /\ ~Returned => ENABLED Next

C18_Step ==
    /\ dpc = "save" => summary' = summary
    /\ Returned => UNCHANGED vars

\* C18: run_parallel_tests never raises: whatever the roster, the worker limit
\* and the way each session ends, the dispatcher can always take its next step
\* until it has returned the summary; saving the summary spreadsheet, failed or
\* not, leaves the summary as it was built.
C18_DispatcherSurvives == []C18_State /\ [][C18_Step]_vars

\* a returned run of two sessions, one ended by an exception of driver.quit()
\* and one by a login error, whose summary spreadsheet could not be saved
C18_Witness ==
    /\ Returned
    /\ N = 2
    /\ summary_file = "failed"
    /\ \E i, j \in Futures : tpc[i] = "raised" /\ hist[j].login_error
    /\ RunSummary.failed_users = 2
    /\ RunSummary.total_users = 2

\* the empty roster: the run returned a summary of zeros
C18_WitnessEmptyRoster ==
    /\ Returned
    /\ N = 0
    /\ RunSummary.total_users = 0
    /\ RunSummary.successful_users = 0
    /\ RunSummary.failed_users = 0

\* C19 as stated: under fair scheduling every submitted session reaches its
\* teardown and returns an outcome, and run_parallel_tests returns.
C19_Original ==
    /\ \A i \in 1..MaxUsers :
           (i <= N /\ tpc[i] = "queued") ~> (i <= N /\ tpc[i] = "returned")
    /\ <>Returned

C19_Kept ==
    /\ \A i \in Futures :
           /\ tpc[i] = "queued" => tpc'[i] \in {"queued", "create"}
           /\ tpc[i] \in Active => tpc'[i] \in Active \cup Finished
           /\ tpc[i] \in Active /\ tpc'[i] \in Finished => tpc[i] = "finally"
    /\ Returned' => \A i \in Futures : tpc'[i] \in Finished /\ i \in processed'

\* C19 amended: under fair scheduling every submitted session reaches its
\* teardown and then finishes, by returning an outcome or by raising the
\* exception of driver.quit(), and run_parallel_tests returns; a submitted
\* session is taken from the queue only to be started, leaves its run only
\* through its teardown, and has finished and been collected when the run
\* returns.
C19_Termination ==
    /\ \A i \in 1..MaxUsers :
           /\ (i <= N /\ tpc[i] = "queued") ~> (i <= N /\ tpc[i] = "finally")
           /\ (i <= N /\ tpc[i] = "queued") ~> (i <= N /\ tpc[i] \in Finished)
    /\ <>Returned
    /\ [][C19_Kept]_vars

\* two sessions on one worker: the second waited in the queue while the first
\* ran, and both have finished, one of them by raising
C19_Witness ==
    /\ Returned
    /\ N = 2
    /\ max_workers = 1
    /\ tpc[1] = "raised"
    /\ tpc[2] = "returned"
    /\ hist[2].timeouts = {1}

\* the number a string of digits stands for
RECURSIVE Value(_)
Value(d) == IF d = << >> THEN 0 ELSE 10 * Value(SubSeq(d, 1, Len(d) - 1)) + d[Len(d)]

\* C20: the list returned by generate_user_credentials(base_name, start_num,
\* count, password) has count pairs (none when count <= 0); the i-th, counting
\* from 0, is (base_name followed by the decimal digits of start_num + i with
\* zeros in front up to a width of 4 and none beyond, password); the usernames
\* are pairwise different.
C20_Credentials ==
    generated # << >> =>
        LET roster == generated[1]
            base_name == generate_args[1]
            start_num == generate_args[2]
            count == generate_args[3]
            password == generate_args[4]
        IN  /\ Len(roster) = (IF count <= 0 THEN 0 ELSE count)
            /\ \A i \in 1..Len(roster) :
                   LET name == roster[i][1]
                   IN  /\ Len(roster[i]) = 2
                       /\ roster[i][2] = password
                       /\ name[1] = base_name
                       /\ \A j \in 1..Len(name[2]) : name[2][j] \in 0..9
                       /\ Value(name[2]) = start_num + (i - 1)
                       /\ Len(name[2]) >= 4
                       /\ Len(name[2]) > 4 => name[2][1] # 0
            /\ \A i, j \in 1..Len(roster) : i # j => roster[i][1] # roster[j][1]

\* three users from 9998 on: 9998, 9999 and the five-digit 10000
C20_Witness ==
    /\ generated # << >>
    /\ generate_args = <<"auto_user", 9998, 3, "123456">>
    /\ Len(generated[1]) = 3
    /\ generated[1][1] = <<<<"auto_user", <<9, 9, 9, 8>>>>, "123456">>
    /\ generated[1][3] = <<<<"auto_user", <<1, 0, 0, 0, 0>>>>, "123456">>

\* the default start of the command line: auto_user0080
C20_WitnessPadded ==
    /\ generated # << >>
    /\ generate_args = <<"auto_user", 80, 1, "123456">>
    /\ generated[1] = <<<<<<"auto_user", <<0, 0, 8, 0>>>>, "123456">>>>

\* a count below zero: the roster is empty
C20_WitnessEmpty ==
    /\ generated = <<<< >>>>
    /\ generate_args[3] = -1

\* C21 as stated: any two distinct workers gwI and gwJ hold accounts with
\* different usernames, and the master run holds the first account.
C21_Original ==
    /\ \A w1, w2 \in DOMAIN accounts :
           w1 # w2 /\ w1 # Master /\ w2 # Master =>
               accounts[w1].username # accounts[w2].username
    /\ Master \in DOMAIN accounts => accounts[Master] = USER_ACCOUNTS[1]

\* the workers gw1 and gw2 hold the same username
C21_Witness ==
    /\ <<"gw", 1>> \in DOMAIN accounts
    /\ <<"gw", 2>> \in DOMAIN accounts
    /\ accounts[<<"gw", 1>>].username = <<"auto_user", <<0, 0, 0, 2>>>>
    /\ accounts[<<"gw", 2>>].username = <<"auto_user", <<0, 0, 0, 2>>>>

\* the workers gw0 and gw5 hold the same username: the sixth worker wraps
\* around to the first account
C21_WitnessWrap ==
    /\ <<"gw", 0>> \in DOMAIN accounts
    /\ <<"gw", 5>> \in DOMAIN accounts
    /\ accounts[<<"gw", 0>>] = accounts[<<"gw", 5>>]

\* the steps of a session in their order: Acquire (create, get), Authenticate
\* (login), Navigate, Sample, the Interact loop followed by the export (new_chat,
\* questions), Teardown (finally)
StepRank(pc) ==
    CASE pc = "unsubmitted" -> 0
      [] pc = "queued" -> 1
      [] pc = "create" -> 2
      [] pc = "get" -> 3
      [] pc = "login" -> 4
      [] pc = "navigate" -> 5
      [] pc = "sample" -> 6
      [] pc = "new_chat" -> 7
      [] pc = "questions" -> 8
      [] pc = "finally" -> 9
      [] OTHER -> 10

C22_State ==
    \A i \in Futures :
        /\ hist[i].sent > 0 =>
              hist[i].logins = 1 /\ ~hist[i].login_error /\ hist[i].navigated /\ hist[i].sampled
        \* a question without a result is the one whose error handling raised
        /\ hist[i].sent > hist[i].asked =>
              /\ hist[i].exception = "take_screenshot"
              /\ tpc[i] \in Ended
        /\ hist[i].exports > 0 => StepRank(tpc[i]) >= 9 /\ LoopDone(i)

C22_Step ==
    \A i \in Futures :
        \* no back-edge: a step is followed by itself (the loop), the next
        \* step, or Teardown
        /\ tpc'[i] # tpc[i] =>
              \/ StepRank(tpc'[i]) = StepRank(tpc[i]) + 1
              \/ tpc[i] \in Active /\ tpc'[i] = "finally"
              \/ tpc[i] = "finally" /\ tpc'[i] \in Finished
        \* a question is sent only inside the loop, after every earlier
        \* question's result was appended, and it is the only one sent
        /\ hist'[i].sent # hist[i].sent =>
              /\ tpc[i] = "questions"
              /\ hist'[i].sent = hist[i].sent + 1
              /\ hist[i].asked = Len(task[i].tm_results)
              /\ hist[i].sent <= Len(task[i].tm_results)
        \* the report is exported after the loop has visited every question
        /\ hist'[i].exports # hist[i].exports =>
              /\ tpc[i] = "questions" /\ tpc'[i] = "finally"
              /\ Len(task[i].tm_results) = Len(task[i].random_questions)
        \* results are appended one at a time
        /\ hist'[i].asked # hist[i].asked => hist'[i].asked = hist[i].asked + 1

\* C22: the steps of one session follow one another without back-edges:
\* Acquire, Authenticate, Navigate, Sample, the Interact loop, the export,
\* Teardown (an exception or a login error goes straight to Teardown); no
\* question is sent unless the login returned without error, and a question
\* is sent only when the results of all earlier questions have been appended.
C22_LinearSteps == []C22_State /\ [][C22_Step]_vars

\* a session that sent two questions, exported its report and returned
C22_Witness ==
    /\ tpc[1] = "returned"
    /\ hist[1].sent = 2 /\ hist[1].asked = 2 /\ hist[1].exports = 1
    /\ hist[1].quits = 1

C23_State ==
    (summary # << >> \/ summary_file # "none" \/ dpc \in {"save", "returned"}) =>
        /\ Running = {}
        /\ \A i \in Futures : tpc[i] \in Finished /\ i \in processed

C23_Step ==
    /\ summary' # summary =>
          /\ \A i \in Futures : tpc[i] \in Finished /\ i \in processed
          /\ UNCHANGED <<success_count, failed_count, all_results>>
    /\ (success_count' # success_count \/ failed_count' # failed_count
          \/ all_results' # all_results) =>
          \* a step of the as_completed loop in the dispatcher: the sessions stand still
          /\ dpc = "collect"
          /\ \E i \in Futures : tpc[i] \in Finished /\ processed' = processed \cup {i}
                                  /\ i \notin processed
          /\ UNCHANGED <<tpc, task, browser, hist>>
    \* a step of a session leaves the counters alone
    /\ (tpc' # tpc \/ task' # task) /\ dpc' = dpc /\ submitted' = submitted =>
          UNCHANGED <<success_count, failed_count, all_results, summary, summary_file>>

\* C23: the Run Summary is computed and saved only when every future has
\* resolved and been collected (no session is running), and success_count,
\* failed_count and all_results change only in steps of the dispatcher's
\* as_completed loop, never in a step of a session.
C23_SummaryAfterAll == []C23_State /\ [][C23_Step]_vars

\* two sessions were collected, one of them with results, and the summary was saved
C23_Witness ==
    /\ Returned /\ N = 2 /\ summary_file = "saved"
    /\ RunSummary.total_tests >= 1
    /\ RunSummary.successful_users + RunSummary.failed_users = 2

\* the result returned by the call of test_single_question made on its own
SingleResult == single.out[1].result
SingleReturned == single # << >> /\ single.out # << >> /\ ~single.out[1].raised

\* C24 as stated: a result with test_result = "pass" has no evidence
C24_Original ==
    SingleReturned /\ SingleResult.test_result = "pass" => SingleResult.evident = None

\* C24: every result test_single_question returns carries the screenshot,
\* whatever its verdict: it is taken on the timeout path, after the answer
\* was read (before scoring, for pass and fail alike) and in the error
\* handler; a result that passed has evidence too.
C24_EvidenceAlways ==
    SingleReturned =>
        /\ SingleResult.evident = Screenshot
        /\ SingleResult.test_result \in {"pass", "fail", "timeout", "error"}
        /\ SingleResult.test_result = "pass" =>
              single.env.send_ok /\ single.env.received /\ single.env.shot_ok

\* a call that returned a result with verdict "pass" and a screenshot
C24_Witness ==
    SingleReturned /\ SingleResult.test_result = "pass" /\ SingleResult.evident = Screenshot

\* a call that returned a result with verdict "fail" and a screenshot
C24_WitnessFail ==
    SingleReturned /\ SingleResult.test_result = "fail" /\ SingleResult.evident = Screenshot

\* C25 as stated: the question stored in each Session Result of a session is
\* the prompt text of the sampled record it was asked for, and the expected
\* context and expected answer handed to the scorer are that record's fields.
C25_Original ==
    \A i \in Futures : \A k \in 1..Len(task[i].tm_results) :
        /\ task[i].tm_results[k].question = task[i].random_questions[k]["question"]
        /\ task[i].tm_results[k].expected_context = task[i].random_questions[k]["expected_context"]
        /\ task[i].tm_results[k].expected_result = task[i].random_questions[k]["expected_result"]

\* what the code does: the keys test_multiple_questions looks up are not the
\* columns of ReadChatData, so every text is the default ""
C25_CodeRule ==
    \A i \in Futures : \A k \in 1..Len(task[i].tm_results) :
        /\ task[i].tm_results[k].question = EmptyText
        /\ task[i].tm_results[k].expected_context = EmptyText
        /\ task[i].tm_results[k].expected_result = EmptyText
        /\ task[i].tm_results[k].test_result # "pass"

\* a result was appended for a record with a prompt, and its question is empty
C25_Witness ==
    /\ Len(task[1].tm_results) >= 1
    /\ Truthy(task[1].random_questions[1]["question"])
    /\ task[1].tm_results[1].question = EmptyText
    /\ task[1].tm_results[1].actual_response = SomeAnswer

\* the saved workbook holds the header row, then one data row per result in
\* list order, and one evidence entry per result with a screenshot, in order
WithScreenshot(results) == {k \in 1..Len(results) : results[k].evident # None}

WellFormed(w, results) ==
    /\ w.current_row = Len(results) + 2
    /\ Len(w.results_sheet) = Len(results) + 1
    /\ w.results_sheet[1] = "headers"
    /\ \A k \in 1..Len(results) :
          /\ w.results_sheet[k + 1].data = results[k]
          /\ w.results_sheet[k + 1].evidence = "View Evidence" <=> k \in WithScreenshot(results)
    /\ Len(w.evidence_sheet) = Cardinality(WithScreenshot(results))
    /\ w.evidence_row = Cardinality(WithScreenshot(results)) + 1
    /\ \A e \in 1..Len(w.evidence_sheet) : w.evidence_sheet[e] = Screenshot

SuccessfulSession(i) == tpc[i] = "returned" /\ OutcomeOf(i)[2]

C26_WitnessEmpty ==
    SuccessfulSession(1) /\ OutcomeOf(1)[3] = << >> /\ hist[1].exports = 0

\* the questions of session i whose own send or evidence capture failed
OwnFault(i) == ((1..Len(task[i].tm_results)) \ task[i].sent_set) \cup hist[i].capture_failed

C27_State ==
    \A i \in Futures :
        /\ Cardinality(task[i].completed) = task[i].quote_count
        /\ task[i].completed \subseteq task[i].sent_set
        /\ \A j \in 1..Len(task[i].tm_results) :
              \* an answered question: all of the first j responses had completed
              /\ Answered(task[i].tm_results[j]) => (1..j) \subseteq task[i].completed
              \* the cascade: a response that is still missing leaves every
              \* later question unanswered, recorded as "timeout" unless its
              \* own send or capture failed ("error")
              /\ \A k \in 1..(j - 1) :
                    k \notin task[i].completed =>
                        /\ ~Answered(task[i].tm_results[j])
                        /\ j \notin OwnFault(i) => task[i].tm_results[j].test_result = "timeout"

C27_Step ==
    \A i \in Futures :
        Len(task'[i].tm_results) = Len(task[i].tm_results) + 1 =>
            LET idx == Len(task'[i].tm_results)
            IN  /\ Answered(task'[i].tm_results[idx]) =>
                      /\ Cardinality(task'[i].completed) = idx
                      /\ idx \in task'[i].sent_set
                /\ idx \in task'[i].sent_set /\ Cardinality(task'[i].completed) # idx
                      /\ idx \notin hist'[i].capture_failed =>
                      task'[i].tm_results[idx].test_result = "timeout"

\* C27: question idx is deemed answered only when the number of completed
\* responses is exactly idx; with at most one completed response per sent
\* question, a question k whose response has not completed leaves every later
\* recorded question unanswered: it is recorded as "timeout" (as "error" when
\* its own send or evidence capture failed).
C27_TimeoutCascade == []C27_State /\ [][C27_Step]_vars

\* the response to question 1 never completed: both questions were sent and
\* both are recorded as timeouts
C27_Witness ==
    /\ tpc[1] = "returned"
    /\ Len(task[1].tm_results) = 2
    /\ task[1].sent_set = {1, 2}
    /\ 1 \notin task[1].completed
    /\ task[1].tm_results[1].test_result = "timeout"
    /\ task[1].tm_results[2].test_result = "timeout"

\* the response to question 2 completed while the one to question 1 did not:
\* question 2 is a timeout all the same
C27_WitnessLater ==
    /\ Len(task[1].tm_results) = 2
    /\ task[1].completed = {2}
    /\ task[1].tm_results[2].test_result = "timeout"

\* result lists with every verdict, as all_results can hold them
Verdicts == {"pass", "fail", "timeout", "error"}
VerdictLists == UNION {[1..n -> [test_result : Verdicts]] : n \in 0..MaxCount}

\* passed + failed <= total, with equality exactly when no result is a
\* timeout or an error, in the summary built from the result list all
TotalsOrdered(s, all) ==
    /\ s.total_tests = Len(all)
    /\ s.passed_tests + s.failed_tests <= s.total_tests
    /\ (s.passed_tests + s.failed_tests = s.total_tests)
          <=> (\A k \in 1..Len(all) : all[k].test_result \notin {"timeout", "error"})
    /\ s.total_tests - s.passed_tests - s.failed_tests
          = Cardinality({k \in 1..Len(all) : all[k].test_result \in {"timeout", "error"}})

\* C28: in every Run Summary passed_tests + failed_tests <= total_tests, with
\* equality exactly when no aggregated result has verdict "timeout" or
\* "error"; such results count in total_tests only. The same holds for the
\* summary of any list of results.
C28_TotalsInequality ==
    /\ summary # << >> => TotalsOrdered(RunSummary, all_results)
    /\ \A all \in VerdictLists :
          TotalsOrdered(SummaryOf([success_count |-> 0, failed_count |-> 0,
                                   all_results |-> all]), all)

\* a summary of two results, one failed and one timed out: 0 + 1 < 2
C28_Witness ==
    /\ Returned
    /\ RunSummary.total_tests = 2
    /\ RunSummary.passed_tests + RunSummary.failed_tests = 1
    /\ \E k \in 1..2 : all_results[k].test_result = "timeout"

\* a summary of two results, both failed: 0 + 2 = 2
C28_WitnessEqual ==
    /\ Returned
    /\ RunSummary.total_tests = 2
    /\ RunSummary.failed_tests = 2

\* the interact loop of session i was aborted: take_screenshot() raised in
\* the error handler of test_single_question
LoopAborted(i) == hist[i].exception = "take_screenshot"

\* C29: when an exception leaves the interact loop, the results that the
\* questions before it produced are lost: the session returns
\* (username, false, []), no report is written for it, and the dispatcher
\* counts it as failed and adds none of its results to all_results.
C29_PartialResultsLost ==
    \A i \in Futures :
        LoopAborted(i) =>
            /\ tpc[i] \in Ended
            /\ task[i].results = << >>
            /\ ~task[i].success
            /\ hist[i].exports = 0 /\ hist[i].report = << >>
            /\ tpc[i] = "returned" => OutcomeOf(i) = <<UserOf(i), FALSE, << >>>>
            /\ i \in processed =>
                  /\ failed_count >= 1
                  /\ success_count = 0
                  /\ all_results = << >>
            /\ summary # << >> =>
                  /\ RunSummary.total_tests = 0
                  /\ RunSummary.successful_users = 0 /\ RunSummary.failed_users = 1

\* the first question produced a result, the error handler of the second
\* raised; the session returned and the run summary counts nothing
C29_Witness ==
    /\ Returned
    /\ LoopAborted(1)
    /\ Len(task[1].tm_results) = 1
    /\ tpc[1] = "returned"
    /\ OutcomeOf(1)[3] = << >>
    /\ RunSummary.total_tests = 0

\* the number of attempts a call with max_retries = m may make
AttemptBound(m) == IF m < 0 THEN 0 ELSE m

C30_State ==
    LET n == Len(ollama.attempts) IN
    /\ n <= AttemptBound(ollama.max_retries)
    \* every attempt but the last one failed: the first answer ends the call
    /\ \A a \in 1..(n - 1) : ~Answers(ollama.attempts[a])
    /\ ollama.pc = "loop" => \A a \in 1..n : ~Answers(ollama.attempts[a])
    /\ ollama.pc = "returned" =>
          /\ n >= 1
          /\ Answers(ollama.attempts[n])
          /\ ollama.returned = <<DictGet(ollama.attempts[n].json[1], "response", EmptyText)>>
    /\ ollama.pc = "raised" =>
          /\ n = AttemptBound(ollama.max_retries)
          /\ \A a \in 1..n : ~Answers(ollama.attempts[a])
          /\ ollama.returned = << >>
    /\ ollama.max_retries = 0 => n = 0 /\ ollama.pc # "returned"

\* a call that returned or raised makes no further attempt
C30_Step == ollama.pc # "loop" => ollama' = ollama

\* C30: _call_ollama makes at most max_retries attempts; it returns the
\* response of the first attempt that answers (status 200, body decoded) and
\* makes no attempt after it; it raises RuntimeError after exactly max_retries
\* failed attempts (non-200 status, or an exception of the post or of the
\* decoding); with max_retries = 0 it raises without any attempt.
C30_BoundedRetry == []C30_State /\ [][C30_Step]_vars

\* two failed attempts (a status 500, an exception), then an answer on the
\* third attempt, which is returned
C30_Witness ==
    /\ ollama.pc = "returned"
    /\ ollama.max_retries = 3
    /\ Len(ollama.attempts) = 3
    /\ ollama.attempts[1].status = 500
    /\ ollama.attempts[2].raises
    /\ ollama.returned = <<<<7>>>>

\* three failed attempts, then RuntimeError
C30_WitnessRaised ==
    ollama.pc = "raised" /\ ollama.max_retries = 3 /\ Len(ollama.attempts) = 3

\* max_retries = 0: RuntimeError without an attempt
C30_WitnessZero ==
    ollama.pc = "raised" /\ ollama.max_retries = 0 /\ ollama.attempts = << >>

\* an answer on the first attempt with attempts to spare
C30_WitnessFirst ==
    ollama.pc = "returned" /\ ollama.max_retries = 3 /\ Len(ollama.attempts) = 1

====
